---- MODULE Spec2Model ----
(***************************************************************************)
(* Verification model of the sermon-uploader support scripts.              *)
(*                                                                         *)
(* Part I  : shared/discord_live_notifier.py                               *)
(*           DiscordLiveNotifier + SermonPipelineTracker, called from      *)
(*           several threads (SpecNotifier).                               *)
(* Part II : backend/test_automation/sunday_morning_stress_test.py         *)
(*           one scenario run of SundayMorningStressTester on a            *)
(*           ThreadPoolExecutor (SpecScenario).                            *)
(* Part III: pi-processor/sermon_processor_live.py                         *)
(*           start() and stop() of SermonProcessorLive, its monitor_loop   *)
(*           threads, their polls and tracker calls (SpecProcessor).       *)
(* Part IV : backend/test_automation/api_upload_tests.py                   *)
(*           one run of APIUploadTester and the SermonUploaderAPI          *)
(*           operations (SpecTester).                                      *)
(* Part V  : pi-webhook-listener.py                                        *)
(*           the /webhook route and deploy() (SpecWebhook).                *)
(* Part VI : backend/test_automation/api_upload_tests.py                   *)
(*           the file categories of RidgepointFileManager (SpecFiles).     *)
(* Part VII: backend/test_automation/api_upload_tests.py                   *)
(*           APIUploadTester._calculate_metrics (SpecMetrics).             *)
(* Part VIII: backend/test_automation/api_upload_tests.py and              *)
(*           sunday_morning_stress_test.py                                 *)
(*           the report generators (SpecReports).                          *)
(***************************************************************************)
EXTENDS Integers, Sequences, FiniteSets, TLC

(***************************************************************************)
(* Bounds of the model.                                                    *)
(***************************************************************************)
\* messages the remote service hands out ids for (ids 1..MaxBatches)
MaxBatches == 1
\* notifier/tracker calls made in one behaviour
MaxCalls == 3
\* scenario: files selected for a run (0-based indices 0..n-1, n <= MaxFiles)
MaxFiles == 2
\* scenario: largest concurrent_uploads tried
MaxWorkers == 2
\* scenario: largest duration_minutes tried
MaxMinutes == 4
\* scenario: the clock stops advancing here (minutes since scenario start)
MaxTime == 2
\* processor: polls of the bucket in one behaviour
MaxPolls == 2
\* tester: upload requests issued by the single tests of one run
MaxRequests == 2
\* bytes listed on either side of a whole number of megabytes
MaxOffset == 2
\* metrics: bits in the significand of a float
MantissaBits == 4
\* metrics: different positive durations tried
MaxDurations == 3
\* metrics: runs of equal results in a result list
MaxRuns == 2
\* reports: entries in a list of metrics
MaxScenarios == 2
\* reports: samples of the system metrics taken in one behaviour
MaxSamples == 2
\* reports: the clock stops here
MaxClock == 2

(***************************************************************************)
(* Part I.  The live notifier.                                             *)
(***************************************************************************)
Threads == {"t1", "t2"}
Files == {"a.wav", "b.wav"}
MsgIds == 1..MaxBatches
NoThread == "none"

\* class ProcessingStage
ProcessingStage == {"DETECTED", "UPLOADING", "UPLOADED", "PROCESSING", "COMPLETED", "ERROR"}

\* stages_order of _get_progress_bar: the pipeline order of the non-error stages
stages_order == <<"DETECTED", "UPLOADING", "UPLOADED", "PROCESSING", "COMPLETED">>

StageIndex(s) == CHOOSE i \in 1..Len(stages_order) : stages_order[i] = s

\* progress_percent values passed to update_file_upload_progress
Percents == {0, 50, 100}

VARIABLES
    active_messages,   \* DiscordLiveNotifier.active_messages: ids tracked by the notifier
    active_batches,    \* SermonPipelineTracker.active_batches: ids tracked by the tracker
    stages,            \* ProgressMessage.stages, per message id: file -> stage
    title,             \* ProgressMessage.title, per message id
    message_lock,      \* DiscordLiveNotifier.message_lock: the thread holding it, or NoThread
    pc,                \* per thread: where it is inside a notifier/tracker call
    call,              \* per thread: arguments and locals of the call in progress
    remote_created,    \* remote service: number of messages created (POST ?wait=true answered 200)
    remote_shown,      \* remote service: per message id, the last embed it accepted
    edit_failed,       \* remote service: some PATCH was not answered 200
    calls              \* number of notifier/tracker calls begun so far

nvars == <<active_messages, active_batches, stages, title, message_lock,
           pc, call, remote_created, remote_shown, edit_failed, calls>>

\* the state of a scenario run (Part II)
VARIABLES
    sc_pc,               \* where the scenario function is: idle, submit, collect, shutdown, returned, raised
    upload_pattern,      \* scenario.upload_pattern
    n_files,             \* len(test_files)
    concurrent_uploads,  \* scenario.concurrent_uploads = max_workers of the pool
    duration_minutes,    \* scenario.duration_minutes
    now,                 \* the clock
    submitted,           \* len(futures): tasks 0..submitted-1 were handed to the executor
    task,                \* per task: state on the pool, delay, wake-up time, time the upload began, result
    completion,          \* the tasks in the order in which they finished
    col,                 \* index in futures of the future being awaited
    col_deadline,        \* when the pending future.result(timeout=...) gives up
    timed_out,           \* the tasks whose future.result raised TimeoutError
    results              \* the list `results` of the scenario function

svars == <<sc_pc, upload_pattern, n_files, concurrent_uploads, duration_minutes, now,
           submitted, task, completion, col, col_deadline, timed_out, results>>

\* the state of SermonProcessorLive (Part III)
VARIABLES
    running,           \* SermonProcessorLive.running
    pp_pc,             \* per monitor thread: where it is in monitor_loop / process_file
    polls,             \* number of polls (process_pending_files calls) begun
    todo,              \* per monitor thread: the pending files of its poll not yet processed
    cur,               \* per monitor thread: the file its process_file call works on
    lwork,             \* per monitor thread: how download, conversion and upload ended in the call
    ledit,             \* per monitor thread: a progress edit failed in the call
    current_batch_id,  \* SermonProcessorLive.current_batch_id (0 = None)
    processed_files,   \* SermonProcessorLive.processed_files
    aac_uploaded,      \* the files whose AAC object is in the bucket
    work,              \* per file: how download, conversion and upload ended in its last call
    ret,               \* per file: what its last process_file call returned
    edits_failed       \* the files of which a progress edit failed in their last call

pvars == <<running, pp_pc, polls, todo, cur, lwork, ledit, current_batch_id, processed_files,
           aac_uploaded, work, ret, edits_failed>>

\* the state of one run of the API upload tests (Part IV)
VARIABLES
    t_pc,            \* where the run is: idle, setup, tests, batch, teardown, exited
    caller,          \* who drives APIUploadTester: a main() or a phase helper of run_api_tests
    healthy,         \* api.health_check() returned True
    connected,       \* file_manager.connect() returned True
    n_test_files,    \* len(tester.test_files) after discovery
    session_open,    \* the SSH/SFTP session of RidgepointFileManager is open
    requests,        \* upload requests issued so far (presigned-URL request, PUT, direct POST)
    api_ret,         \* what the last SermonUploaderAPI operation gave its caller
    exit_code,       \* what main() returned: "none", "0", "1"; a helper: "None" or "metrics"
    batch_size,      \* test_batch_upload: batch_size
    b_next,          \* test_batch_upload: start index i of the next batch
    b_results,       \* test_batch_upload: the files that have an UploadResult in results
    b_total,         \* total_files of the metrics test_batch_upload returned (-1: none yet)
    stress           \* test_stress_scenario: "none", "timed_out" (a round did not finish
                     \* within its window), "returned" (metrics returned)

tvars == <<t_pc, caller, healthy, connected, n_test_files, session_open, requests, api_ret,
           exit_code, batch_size, b_next, b_results, b_total, stress>>

\* the state of the webhook listener (Part V)
VARIABLES
    WEBHOOK_SECRET,  \* the module constant, read from the environment at import
    w_pc,            \* where the listener is: idle, chdir, step, respond
    w_req,           \* the request being handled, or handled last
    deployed,        \* deploy() was invoked for that request
    steps_run,       \* the commands deploy() has started, in the order of their start
    exits,           \* how each of them ended
    d_ret,           \* what deploy() returned
    response         \* the status the request was answered with (0: none yet)

wvars == <<WEBHOOK_SECRET, w_pc, w_req, deployed, steps_run, exits, d_ret, response>>

\* the state of the file discovery of RidgepointFileManager (Part VI)
VARIABLES
    f_size,      \* the size in bytes on the line of the listing being read
    f_category   \* the category of the TestFile made from it ("none": not made yet)

fvars == <<f_size, f_category>>

\* the results handed to _calculate_metrics and what it returned (Part VII)
VARIABLES
    m_results,   \* the list of UploadResult, as runs of equal results
    m_metrics    \* the TestMetrics computed from it (NoMetrics: none yet)

mvars == <<m_results, m_metrics>>

\* the state around the report generators (Part VIII)
VARIABLES
    clock,           \* what datetime.now() returns
    monitoring,      \* the _monitor_system_metrics thread: "off", "on", "stopped"
    system_metrics,  \* SundayMorningStressTester.system_metrics
    generator,       \* the generator called: "none", "generate_report", "generate_stress_report"
    metrics_list,    \* the list of metrics it was called with
    reports          \* the JSON documents written by its calls, in their order

rvars == <<clock, monitoring, system_metrics, generator, metrics_list, reports>>

vars == <<nvars, svars, pvars, tvars, wvars, fvars, mvars, rvars>>

NoCall == [m |-> 0, f |-> "", s |-> "", embed |-> <<>>]

\* _create_progress_embed: what the embed shows of the message it is given: the
\* title and one field per file with its stage (colour and summary are derived
\* from the stages).  ProgressMessage.file_info only adds the size / percent /
\* duration texts of a field; it is written in the same with-block as the stage
\* and read by the same embed construction, and is not modelled separately.
_create_progress_embed(ttl, stg) == [title |-> ttl, stages |-> stg]

InitNotifier ==
    /\ active_messages = {}
    /\ active_batches = {}
    /\ stages = [m \in MsgIds |-> <<>>]
    /\ title = [m \in MsgIds |-> "none"]
    /\ message_lock = NoThread
    /\ pc = [t \in Threads |-> "idle"]
    /\ call = [t \in Threads |-> NoCall]
    /\ remote_created = 0
    /\ remote_shown = [m \in MsgIds |-> <<>>]
    /\ edit_failed = FALSE
    /\ calls = 0

\* a thread begins a call of the notifier or the tracker
BeginCall == calls < MaxCalls /\ calls' = calls + 1

\* SermonPipelineTracker.start_batch_upload -> create_progress_message, up to the
\* answer of the POST: a 200 answer carries a fresh message id; any other status
\* or an exception returns None and nothing is tracked.
start_batch_upload(t, files, ok) ==
    /\ pc[t] = "idle"
    /\ files # {}
    /\ remote_created < MaxBatches
    /\ BeginCall
    /\ IF ok
       THEN /\ remote_created' = remote_created + 1
            /\ remote_shown' = [remote_shown EXCEPT ![remote_created + 1] =
                    _create_progress_embed("Uploading", [f \in files |-> "DETECTED"])]
            /\ call' = [call EXCEPT ![t] = [NoCall EXCEPT !.m = remote_created + 1,
                                                          !.embed = [f \in files |-> "DETECTED"]]]
            /\ pc' = [pc EXCEPT ![t] = "create_store"]
       ELSE UNCHANGED <<remote_created, remote_shown, call, pc>>
    /\ UNCHANGED <<active_messages, active_batches, stages, title, message_lock, edit_failed, svars, pvars, tvars, wvars, fvars, mvars, rvars>>

\* create_progress_message lines 93-109 and start_batch_upload lines 315-317:
\* the ProgressMessage is stored under message_lock, then in active_batches.
CreateStore(t) ==
    /\ pc[t] = "create_store"
    /\ message_lock = NoThread
    /\ LET m == call[t].m IN
         /\ stages' = [stages EXCEPT ![m] = call[t].embed]
         /\ title' = [title EXCEPT ![m] = "Uploading"]
         /\ active_messages' = active_messages \cup {m}
         /\ active_batches' = active_batches \cup {m}
    /\ pc' = [pc EXCEPT ![t] = "idle"]
    /\ call' = [call EXCEPT ![t] = NoCall]
    /\ UNCHANGED <<message_lock, remote_created, remote_shown, calls, edit_failed, svars, pvars, tvars, wvars, fvars, mvars, rvars>>

\* update_progress, entry: the caller takes message_lock (line 122)
EnterUpdate(t, m, f, s) ==
    /\ pc[t] = "idle"
    /\ message_lock = NoThread
    /\ BeginCall
    /\ message_lock' = t
    /\ pc' = [pc EXCEPT ![t] = "up_locked"]
    /\ call' = [call EXCEPT ![t] = [NoCall EXCEPT !.m = m, !.f = f, !.s = s]]
    /\ UNCHANGED <<active_messages, active_batches, stages, title,
                   remote_created, remote_shown, edit_failed, svars, pvars, tvars, wvars, fvars, mvars, rvars>>

\* DiscordLiveNotifier.update_progress called directly
update_progress(t, m, f, s) == EnterUpdate(t, m, f, s)

\* SermonPipelineTracker.update_file_upload_progress
update_file_upload_progress(t, b, f, progress_percent) ==
    EnterUpdate(t, b, f, IF progress_percent < 100 THEN "UPLOADING" ELSE "UPLOADED")

\* SermonPipelineTracker.mark_file_processing
mark_file_processing(t, b, f) == EnterUpdate(t, b, f, "PROCESSING")

\* SermonPipelineTracker.mark_file_complete
mark_file_complete(t, b, f) == EnterUpdate(t, b, f, "COMPLETED")

\* SermonPipelineTracker.mark_file_error
mark_file_error(t, b, f) == EnterUpdate(t, b, f, "ERROR")

\* the stage update_progress stores for a file (line 131)
NewStage(old, s) == s

\* update_progress lines 123-139, the body of the with-block; leaving it
\* releases message_lock.
UpdateLocked(t) ==
    /\ pc[t] = "up_locked"
    /\ message_lock = t
    /\ message_lock' = NoThread
    /\ LET m == call[t].m
           f == call[t].f
       IN IF m \notin active_messages
          THEN /\ pc' = [pc EXCEPT ![t] = "idle"]
               /\ call' = [call EXCEPT ![t] = NoCall]
               /\ UNCHANGED stages
          ELSE /\ stages' = IF f \in DOMAIN stages[m]
                            THEN [stages EXCEPT ![m][f] = NewStage(stages[m][f], call[t].s)]
                            ELSE stages
               /\ pc' = [pc EXCEPT ![t] = "up_embed"]
               /\ call' = [call EXCEPT ![t] = [NoCall EXCEPT !.m = m]]
    /\ UNCHANGED <<active_messages, active_batches, title, remote_created, remote_shown, calls, edit_failed, svars, pvars, tvars, wvars, fvars, mvars, rvars>>

\* update_progress lines 141-146: the embed is built from message.title,
\* message.stages and message.file_info after the with-block was left.
UpdateEmbed(t) ==
    /\ pc[t] = "up_embed"
    /\ LET m == call[t].m IN
         call' = [call EXCEPT ![t].embed =
                     _create_progress_embed(title[m], stages[m])]
    /\ pc' = [pc EXCEPT ![t] = "up_patch"]
    /\ UNCHANGED <<active_messages, active_batches, stages, title, message_lock,
                   remote_created, remote_shown, calls, edit_failed, svars, pvars, tvars, wvars, fvars, mvars, rvars>>

UpdatePatch_Posts(t, ok) ==
    /\ pc[t] = "up_patch"
    /\ remote_created' = remote_created + 1
    /\ pc' = [pc EXCEPT ![t] = "idle"]
    /\ call' = [call EXCEPT ![t] = NoCall]
    /\ UNCHANGED <<active_messages, active_batches, stages, title, message_lock,
                   remote_shown, calls, edit_failed, svars, pvars, tvars, wvars, fvars, mvars, rvars>>

\* update_progress lines 148-166: PATCH of the message; ok = the service answered
\* 200, otherwise another status or an exception (logged, False returned).
UpdatePatch(t, ok) ==
    /\ pc[t] = "up_patch"
    /\ remote_shown' = IF ok THEN [remote_shown EXCEPT ![call[t].m] = call[t].embed]
                       ELSE remote_shown
    /\ edit_failed' = (edit_failed \/ ~ok)
    /\ pc' = [pc EXCEPT ![t] = "idle"]
    /\ call' = [call EXCEPT ![t] = NoCall]
    /\ UNCHANGED <<active_messages, active_batches, stages, title, message_lock,
                   remote_created, calls, svars, pvars, tvars, wvars, fvars, mvars, rvars>>

CountStage(stg, s) == Cardinality({f \in DOMAIN stg : stg[f] = s})

\* complete_batch line 352: a batch the tracker does not know is left alone
complete_batch(t, b) ==
    /\ pc[t] = "idle"
    /\ BeginCall
    /\ IF b \in active_batches
       THEN /\ call' = [call EXCEPT ![t] = [NoCall EXCEPT !.m = b]]
            /\ pc' = [pc EXCEPT ![t] = "cb_read"]
       ELSE UNCHANGED <<call, pc>>
    /\ UNCHANGED <<active_messages, active_batches, stages, title, message_lock,
                   remote_created, remote_shown, edit_failed, svars, pvars, tvars, wvars, fvars, mvars, rvars>>

\* complete_batch lines 354-374: without taking message_lock, count the stages,
\* retitle the message and build the final embed.
CompleteRead(t) ==
    /\ pc[t] = "cb_read"
    /\ LET b == call[t].m
           errors == CountStage(stages[b], "ERROR")
           new_title == IF errors > 0 THEN "BatchCompleteWithErrors"
                        ELSE "SuccessfullyProcessed"
       IN /\ title' = [title EXCEPT ![b] = new_title]
          /\ call' = [call EXCEPT ![t].embed = _create_progress_embed(new_title, stages[b])]
    /\ pc' = [pc EXCEPT ![t] = "cb_patch"]
    /\ UNCHANGED <<active_messages, active_batches, stages, message_lock,
                   remote_created, remote_shown, calls, edit_failed, svars, pvars, tvars, wvars, fvars, mvars, rvars>>

\* complete_batch lines 376-388: final PATCH (its status is not looked at, an
\* exception is logged), then the batch leaves active_batches.
CompletePatch(t, ok) ==
    /\ pc[t] = "cb_patch"
    /\ remote_shown' = IF ok THEN [remote_shown EXCEPT ![call[t].m] = call[t].embed]
                       ELSE remote_shown
    /\ edit_failed' = (edit_failed \/ ~ok)
    /\ active_batches' = active_batches \ {call[t].m}
    /\ pc' = [pc EXCEPT ![t] = "idle"]
    /\ call' = [call EXCEPT ![t] = NoCall]
    /\ UNCHANGED <<active_messages, stages, title, message_lock, remote_created, calls,
                   svars, pvars, tvars, wvars, fvars, mvars, rvars>>

\* cleanup_old_messages: under message_lock, forget the messages older than
\* `hours`; ids are handed out in creation order, so they are the ids up to some k.
cleanup_old_messages(t, k) ==
    /\ pc[t] = "idle"
    /\ message_lock = NoThread
    /\ BeginCall
    /\ active_messages' = {m \in active_messages : m > k}
    /\ UNCHANGED <<active_batches, stages, title, message_lock, pc, call,
                   remote_created, remote_shown, edit_failed, svars, pvars, tvars, wvars, fvars, mvars, rvars>>

NextNotifier ==
    \E t \in Threads :
        \/ \E files \in SUBSET Files, ok \in BOOLEAN : start_batch_upload(t, files, ok)
        \/ CreateStore(t)
        \/ \E m \in MsgIds, f \in Files, s \in ProcessingStage : update_progress(t, m, f, s)
        \/ \E b \in MsgIds, f \in Files, p \in Percents : update_file_upload_progress(t, b, f, p)
        \/ \E b \in MsgIds, f \in Files : mark_file_processing(t, b, f)
        \/ \E b \in MsgIds, f \in Files : mark_file_complete(t, b, f)
        \/ \E b \in MsgIds, f \in Files : mark_file_error(t, b, f)
        \/ UpdateLocked(t)
        \/ UpdateEmbed(t)
        \/ \E ok \in BOOLEAN : UpdatePatch(t, ok)
        \/ \E b \in MsgIds : complete_batch(t, b)
        \/ CompleteRead(t)
        \/ \E ok \in BOOLEAN : CompletePatch(t, ok)
        \/ \E k \in MsgIds : cleanup_old_messages(t, k)

(***************************************************************************)
(* Part II.  One scenario run of SundayMorningStressTester.                *)
(*                                                                         *)
(* Time is counted in minutes since the scenario started.  A thread that   *)
(* can run does so before the clock moves on (Tick), so that a start time  *)
(* is late only for a reason the code gives it; the time a worker needs    *)
(* for one file (remote read, then the two HTTP calls) passes in the       *)
(* upload step.  The files of the run are named by their index in          *)
(* test_files.                                                             *)
(***************************************************************************)
Patterns == {"immediate", "staggered", "random"}
FileIdx == 0..(MaxFiles - 1)

NoResult == [test_id |-> <<"none", 0>>, file |-> -1, method |-> "none",
             success |-> FALSE, error |-> "none"]
NoTask == [st |-> "none", delay |-> 0, wake |-> 0, ts |-> 0, result |-> NoResult]

InitScenario ==
    /\ sc_pc = "idle"
    /\ upload_pattern = "none"
    /\ n_files = 0
    /\ concurrent_uploads = 0
    /\ duration_minutes = 0
    /\ now = 0
    /\ submitted = 0
    /\ task = [i \in FileIdx |-> NoTask]
    /\ completion = <<>>
    /\ col = 0
    /\ col_deadline = 0
    /\ timed_out = {}
    /\ results = <<>>

\* the prefix of a task's test_id: f"immediate_{i}", f"staggered_{i}", f"random_{upload_count}"
IdPrefix(p) == p

\* timeout of future.result: duration_minutes * 60 seconds, staggered and random
\* add 60 seconds
AwaitTimeout(p, d) == IF p = "immediate" THEN d ELSE d + 1

\* the delays (whole minutes) a task can be given:
\*   immediate: the upload is submitted as it is, without _delayed_upload
\*   staggered: i * interval + uniform(0, 0.3 * interval), interval = duration / n
\*   random   : uniform(0, duration / n)
Delays(p, i, n, d) ==
    CASE p = "immediate" -> {0}
      [] p = "staggered" -> {x \in 0..MaxTime : i * d <= x * n /\ 10 * (x * n - i * d) < 3 * d}
      [] OTHER           -> {x \in 0..MaxTime : x * n <= d}

\* run_scenario, and the head of the pattern's function up to the with-block.
\* The staggered function divides by len(test_files) (line 266): with no file
\* it raises ZeroDivisionError.  Staggered runs are drawn with a whole number
\* of minutes per file.
run_scenario(p, n, k, d) ==
    /\ sc_pc = "idle"
    /\ (p = "staggered" /\ n > 0) => d % n = 0
    /\ upload_pattern' = p
    /\ n_files' = n
    /\ concurrent_uploads' = k
    /\ duration_minutes' = d
    /\ sc_pc' = IF p = "staggered" /\ n = 0 THEN "raised" ELSE "submit"
    /\ UNCHANGED <<now, submitted, task, completion, col, col_deadline, timed_out, results, nvars, pvars, tvars, wvars, fvars, mvars, rvars>>

BudgetExhausted_Never == FALSE

\* the random pattern stops submitting at end_time (lines 309-310)
BudgetExhausted == upload_pattern = "random" /\ now >= duration_minutes

\* one round of the submission loop: executor.submit of the next file
Submit(dl) ==
    /\ sc_pc = "submit"
    /\ submitted < n_files
    /\ ~BudgetExhausted
    /\ dl \in Delays(upload_pattern, submitted, n_files, duration_minutes)
    /\ task' = [task EXCEPT ![submitted] = [NoTask EXCEPT !.st = "queued", !.delay = dl]]
    /\ submitted' = submitted + 1
    /\ UNCHANGED <<sc_pc, upload_pattern, n_files, concurrent_uploads, duration_minutes, now,
                   completion, col, col_deadline, timed_out, results, nvars, pvars, tvars, wvars, fvars, mvars, rvars>>

\* the submission loop ends; the first future.result(timeout=...) is entered
SubmitDone ==
    /\ sc_pc = "submit"
    /\ submitted = n_files \/ BudgetExhausted
    /\ sc_pc' = "collect"
    /\ col' = 0
    /\ col_deadline' = now + AwaitTimeout(upload_pattern, duration_minutes)
    /\ UNCHANGED <<upload_pattern, n_files, concurrent_uploads, duration_minutes, now,
                   submitted, task, completion, timed_out, results, nvars, pvars, tvars, wvars, fvars, mvars, rvars>>

\* the tasks a pool worker is executing (sleeping in the start delay included)
Executing == {i \in FileIdx : task[i].st \in {"sleeping", "reading", "uploading"}}

WorkerFree_NoLimit == TRUE

\* ThreadPoolExecutor(max_workers=scenario.concurrent_uploads): a worker is free
WorkerFree == Cardinality(Executing) < concurrent_uploads

Queued == {i \in FileIdx : task[i].st = "queued"}

\* a free worker takes the oldest queued task: _delayed_upload sleeps for a
\* positive delay, otherwise _upload_with_monitoring is entered at once
PoolStart(i) ==
    /\ i \in Queued
    /\ \A j \in Queued : i <= j
    /\ WorkerFree
    /\ task' = [task EXCEPT ![i] =
                  IF task[i].delay > 0
                  THEN [@ EXCEPT !.st = "sleeping", !.wake = now + task[i].delay, !.delay = 0]
                  ELSE [@ EXCEPT !.st = "reading"]]
    /\ UNCHANGED <<sc_pc, upload_pattern, n_files, concurrent_uploads, duration_minutes, now,
                   submitted, completion, col, col_deadline, timed_out, results, nvars, pvars, tvars, wvars, fvars, mvars, rvars>>

\* _delayed_upload: time.sleep(delay_seconds) is over, _upload_with_monitoring begins
Wake(i) ==
    /\ task[i].st = "sleeping"
    /\ now >= task[i].wake
    /\ task' = [task EXCEPT ![i] = [@ EXCEPT !.st = "reading", !.wake = 0]]
    /\ UNCHANGED <<sc_pc, upload_pattern, n_files, concurrent_uploads, duration_minutes, now,
                   submitted, completion, col, col_deadline, timed_out, results, nvars, pvars, tvars, wvars, fvars, mvars, rvars>>

\* _upload_with_monitoring lines 339-340 and 350-359: read_file_chunk on the
\* shared SFTP client returns the bytes, or raises; the exception is caught
\* and turned into a failed UploadResult that carries the task's test_id.
ReadFile(i, ok) ==
    /\ task[i].st = "reading"
    /\ IF ok
       THEN /\ task' = [task EXCEPT ![i] = [@ EXCEPT !.st = "uploading", !.ts = now]]
            /\ UNCHANGED completion
       ELSE /\ task' = [task EXCEPT ![i] = [@ EXCEPT !.st = "done", !.result =
                          [test_id |-> <<IdPrefix(upload_pattern), i>>, file |-> i,
                           method |-> "stress_monitored", success |-> FALSE, error |-> "io"]]]
            /\ completion' = Append(completion, i)
    /\ UNCHANGED <<sc_pc, upload_pattern, n_files, concurrent_uploads, duration_minutes, now,
                   submitted, col, col_deadline, timed_out, results, nvars, pvars, tvars, wvars, fvars, mvars, rvars>>

\* _upload_with_monitoring line 348 -> _test_presigned_upload: the UploadResult
\* of the presigned flow; its test_id is f"presigned_{int(time.time())}", taken
\* when _test_presigned_upload was entered (task[i].ts)
Upload(i, ok) ==
    /\ task[i].st = "uploading"
    /\ task' = [task EXCEPT ![i] = [@ EXCEPT !.st = "done", !.ts = 0, !.result =
                  [test_id |-> <<"presigned", task[i].ts>>, file |-> i, method |-> "presigned",
                   success |-> ok, error |-> IF ok THEN "none" ELSE "http"]]]
    /\ completion' = Append(completion, i)
    /\ UNCHANGED <<sc_pc, upload_pattern, n_files, concurrent_uploads, duration_minutes, now,
                   submitted, col, col_deadline, timed_out, results, nvars, pvars, tvars, wvars, fvars, mvars, rvars>>

\* the collection loop moves to the next future and enters its future.result
NextFuture ==
    /\ col' = col + 1
    /\ col_deadline' = now + AwaitTimeout(upload_pattern, duration_minutes)

\* future.result returned the task's UploadResult: results.append(result)
CollectResult ==
    /\ sc_pc = "collect"
    /\ col < submitted
    /\ task[col].st = "done"
    /\ results' = Append(results, task[col].result)
    /\ NextFuture
    /\ UNCHANGED <<sc_pc, upload_pattern, n_files, concurrent_uploads, duration_minutes, now,
                   submitted, task, completion, timed_out, nvars, pvars, tvars, wvars, fvars, mvars, rvars>>

\* what the except-branch of the collection loop leaves in results for a future
\* whose result() raised e: the immediate pattern appends a failed UploadResult
\* with error=str(e) (lines 241-251), staggered and random only log (289-290,
\* 326-327).  str() of the TimeoutError raised by Future.result is ''.
AfterTimeout(p, res, i) ==
    IF p = "immediate"
    THEN Append(res, [test_id |-> <<"immediate_error", i>>, file |-> i,
                      method |-> "stress_immediate", success |-> FALSE, error |-> ""])
    ELSE res

\* future.result(timeout=...) raised TimeoutError
CollectTimeout ==
    /\ sc_pc = "collect"
    /\ col < submitted
    /\ task[col].st # "done"
    /\ now >= col_deadline
    /\ results' = AfterTimeout(upload_pattern, results, col)
    /\ timed_out' = timed_out \cup {col}
    /\ NextFuture
    /\ UNCHANGED <<sc_pc, upload_pattern, n_files, concurrent_uploads, duration_minutes, now,
                   submitted, task, completion, nvars, pvars, tvars, wvars, fvars, mvars, rvars>>

\* the collection loop is over; the with-block is left
CollectDone ==
    /\ sc_pc = "collect"
    /\ col = submitted
    /\ sc_pc' = "shutdown"
    /\ UNCHANGED <<upload_pattern, n_files, concurrent_uploads, duration_minutes, now,
                   submitted, task, completion, col, col_deadline, timed_out, results, nvars, pvars, tvars, wvars, fvars, mvars, rvars>>

\* ThreadPoolExecutor.__exit__ is shutdown(wait=True): it returns when every
\* submitted task has finished; then the metrics are computed and returned
ExecutorExit ==
    /\ sc_pc = "shutdown"
    /\ \A i \in FileIdx : task[i].st \in {"none", "done"}
    /\ sc_pc' = "returned"
    /\ UNCHANGED <<upload_pattern, n_files, concurrent_uploads, duration_minutes, now,
                   submitted, task, completion, col, col_deadline, timed_out, results, nvars, pvars, tvars, wvars, fvars, mvars, rvars>>

\* a step that is due now: the clock does not move before it is taken
Urgent ==
    \/ sc_pc = "submit" /\ upload_pattern = "staggered"
    \/ Queued # {} /\ WorkerFree
    \/ \E i \in FileIdx : task[i].st = "sleeping" /\ now >= task[i].wake
    \/ \E i \in FileIdx : task[i].st = "reading"
    \/ sc_pc = "collect" /\ (col = submitted \/ task[col].st = "done" \/ now >= col_deadline)

\* a minute passes
Tick ==
    /\ sc_pc \in {"submit", "collect", "shutdown"}
    /\ now < MaxTime
    /\ ~Urgent
    /\ now' = now + 1
    /\ UNCHANGED <<sc_pc, upload_pattern, n_files, concurrent_uploads, duration_minutes,
                   submitted, task, completion, col, col_deadline, timed_out, results, nvars, pvars, tvars, wvars, fvars, mvars, rvars>>

NextScenario ==
    \/ \E p \in Patterns, n \in 0..MaxFiles, k \in 1..MaxWorkers, d \in 1..MaxMinutes :
          run_scenario(p, n, k, d)
    \/ \E dl \in 0..MaxTime : Submit(dl)
    \/ SubmitDone
    \/ \E i \in FileIdx : PoolStart(i)
    \/ \E i \in FileIdx : Wake(i)
    \/ \E i \in FileIdx, ok \in BOOLEAN : ReadFile(i, ok)
    \/ \E i \in FileIdx, ok \in BOOLEAN : Upload(i, ok)
    \/ CollectResult
    \/ CollectTimeout
    \/ CollectDone
    \/ ExecutorExit
    \/ Tick

(***************************************************************************)
(* Part III.  SermonProcessorLive: start() and stop(), the monitor_loop    *)
(* threads that start() creates, and the polls of a loop, each poll        *)
(* handing its pending files to process_file, with the tracker calls made  *)
(* on the way.                                                             *)
(***************************************************************************)
\* the threads start() can create
Loops == {"m1", "m2"}

NoFile == "none"

\* how the remote edit of one update_progress call ends: answered 200,
\* answered with another status, or the request raised
EditOutcomes == {"ok", "status", "exception"}

InitProcessor ==
    /\ running = FALSE
    /\ pp_pc = [l \in Loops |-> "none"]
    /\ polls = 0
    /\ todo = [l \in Loops |-> {}]
    /\ cur = [l \in Loops |-> NoFile]
    /\ lwork = [l \in Loops |-> "none"]
    /\ ledit = [l \in Loops |-> FALSE]
    /\ current_batch_id = 0
    /\ processed_files = {}
    /\ aac_uploaded = {}
    /\ work = [f \in Files |-> "none"]
    /\ ret = [f \in Files |-> "none"]
    /\ edits_failed = {}

\* start(): nothing happens while running is set; otherwise running is set
\* and a new thread enters monitor_loop
start(l) ==
    /\ ~running
    /\ pp_pc[l] \in {"none", "exited"}
    /\ running' = TRUE
    /\ pp_pc' = [pp_pc EXCEPT ![l] = "head"]
    /\ UNCHANGED <<polls, todo, cur, lwork, ledit, current_batch_id, processed_files,
                   aac_uploaded, work, ret, edits_failed, nvars, svars, tvars, wvars, fvars, mvars, rvars>>

\* stop(): running is cleared
stop ==
    /\ running
    /\ running' = FALSE
    /\ UNCHANGED <<pp_pc, polls, todo, cur, lwork, ledit, current_batch_id, processed_files,
                   aac_uploaded, work, ret, edits_failed, nvars, svars, tvars, wvars, fvars, mvars, rvars>>

\* monitor_loop: `while self.running` finds running cleared; the thread ends
LoopExit(l) ==
    /\ pp_pc[l] = "head"
    /\ ~running
    /\ pp_pc' = [pp_pc EXCEPT ![l] = "exited"]
    /\ UNCHANGED <<running, polls, todo, cur, lwork, ledit, current_batch_id, processed_files,
                   aac_uploaded, work, ret, edits_failed, nvars, svars, tvars, wvars, fvars, mvars, rvars>>

update_progress_result_Propagates(r) ==
    CASE r = "ok" -> "True" [] r = "status" -> "False" [] OTHER -> "raise"

\* what a call of DiscordLiveNotifier.update_progress gives its caller: True
\* after a 200, False after any other status, and False as well after an
\* exception, which the try/except around the whole body catches
update_progress_result(r) ==
    CASE r = "ok" -> "True" [] r = "status" -> "False" [] OTHER -> "False"

\* a tracker call (mark_file_processing / mark_file_complete / mark_file_error)
\* made by process_file: it is made only with a batch id, it drops the value
\* update_progress returns and has no try of its own
TrackerCall(r) ==
    IF current_batch_id = 0 THEN "skipped"
    ELSE IF update_progress_result(r) = "raise" THEN "raise" ELSE "returned"

EditFailed(r) == current_batch_id # 0 /\ r # "ok"

\* get_pending_files: the WAV files of the bucket that are not in processed_files
get_pending_files(bucket) == bucket \ processed_files

\* monitor_loop finds running set and calls process_pending_files (lines
\* 352-363): nothing pending -> return; otherwise start_batch_upload (None
\* when the message could not be created)
process_pending_files(l, bucket, created) ==
    /\ pp_pc[l] = "head"
    /\ running
    /\ polls < MaxPolls
    /\ polls' = polls + 1
    /\ LET pending == get_pending_files(bucket) IN
         IF pending = {}
         THEN UNCHANGED <<pp_pc, todo, current_batch_id>>
         ELSE /\ todo' = [todo EXCEPT ![l] = pending]
              /\ current_batch_id' = IF created THEN 1 ELSE 0
              /\ pp_pc' = [pp_pc EXCEPT ![l] = "next"]
    /\ UNCHANGED <<running, cur, lwork, ledit, processed_files, aac_uploaded, work, ret,
                   edits_failed, nvars, svars, tvars, wvars, fvars, mvars, rvars>>

\* process_pending_files lines 366-370: while running is set the next pending
\* file goes to process_file
process_file(l, f) ==
    /\ pp_pc[l] = "next"
    /\ running
    /\ f \in todo[l]
    /\ todo' = [todo EXCEPT ![l] = @ \ {f}]
    /\ cur' = [cur EXCEPT ![l] = f]
    /\ lwork' = [lwork EXCEPT ![l] = "none"]
    /\ ledit' = [ledit EXCEPT ![l] = FALSE]
    /\ pp_pc' = [pp_pc EXCEPT ![l] = "mark_processing"]
    /\ UNCHANGED <<running, polls, current_batch_id, processed_files, aac_uploaded,
                   work, ret, edits_failed, nvars, svars, tvars, wvars, fvars, mvars, rvars>>

\* process_file is left with result v: what the call did is on record for its file
Return(l, v, failed) ==
    /\ ret' = [ret EXCEPT ![cur[l]] = v]
    /\ work' = [work EXCEPT ![cur[l]] = lwork[l]]
    /\ edits_failed' = IF failed THEN edits_failed \cup {cur[l]} ELSE edits_failed \ {cur[l]}
    /\ cur' = [cur EXCEPT ![l] = NoFile]
    /\ lwork' = [lwork EXCEPT ![l] = "none"]
    /\ ledit' = [ledit EXCEPT ![l] = FALSE]

\* an exception leaves process_file and process_pending_files; monitor_loop
\* logs it and polls again later
Propagate(l, failed) ==
    /\ Return(l, "raised", failed)
    /\ pp_pc' = [pp_pc EXCEPT ![l] = "head"]
    /\ todo' = [todo EXCEPT ![l] = {}]

\* process_file lines 271-273: mark_file_processing, before the try
MarkProcessing(l, r) ==
    /\ pp_pc[l] = "mark_processing"
    /\ IF TrackerCall(r) = "raise"
       THEN Propagate(l, TRUE)
       ELSE /\ pp_pc' = [pp_pc EXCEPT ![l] = "work"]
            /\ ledit' = [ledit EXCEPT ![l] = @ \/ EditFailed(r)]
            /\ UNCHANGED <<ret, work, edits_failed, cur, lwork, todo>>
    /\ UNCHANGED <<running, polls, current_batch_id, processed_files, aac_uploaded,
                   nvars, svars, tvars, wvars, fvars, mvars, rvars>>

\* process_file lines 282-324: download, conversion and upload of the AAC
\* object; after the upload the name enters processed_files.  A failure of
\* one of the three raises into the except-branch.
Work(l, ok) ==
    /\ pp_pc[l] = "work"
    /\ lwork' = [lwork EXCEPT ![l] = IF ok THEN "ok" ELSE "failed"]
    /\ aac_uploaded' = IF ok THEN aac_uploaded \cup {cur[l]} ELSE aac_uploaded
    /\ processed_files' = IF ok THEN processed_files \cup {cur[l]} ELSE processed_files
    /\ pp_pc' = [pp_pc EXCEPT ![l] = IF ok THEN "mark_complete" ELSE "mark_error"]
    /\ UNCHANGED <<running, polls, todo, cur, ledit, current_batch_id, work, ret, edits_failed,
                   nvars, svars, tvars, wvars, fvars, mvars, rvars>>

\* process_file lines 326-336: mark_file_complete inside the try, return True
MarkComplete(l, r) ==
    /\ pp_pc[l] = "mark_complete"
    /\ IF TrackerCall(r) = "raise"
       THEN /\ pp_pc' = [pp_pc EXCEPT ![l] = "mark_error"]
            /\ ledit' = [ledit EXCEPT ![l] = TRUE]
            /\ UNCHANGED <<ret, work, edits_failed, cur, lwork>>
       ELSE /\ Return(l, "True", ledit[l] \/ EditFailed(r))
            /\ pp_pc' = [pp_pc EXCEPT ![l] = "next"]
    /\ UNCHANGED <<running, polls, todo, current_batch_id, processed_files, aac_uploaded,
                   nvars, svars, tvars, wvars, fvars, mvars, rvars>>

\* process_file lines 338-345: the except-branch: mark_file_error, return False
MarkError(l, r) ==
    /\ pp_pc[l] = "mark_error"
    /\ IF TrackerCall(r) = "raise"
       THEN Propagate(l, TRUE)
       ELSE /\ Return(l, "False", ledit[l] \/ EditFailed(r))
            /\ pp_pc' = [pp_pc EXCEPT ![l] = "next"]
            /\ UNCHANGED todo
    /\ UNCHANGED <<running, polls, current_batch_id, processed_files, aac_uploaded,
                   nvars, svars, tvars, wvars, fvars, mvars, rvars>>

\* process_pending_files lines 367-378: after the last file, or when running
\* was found cleared, complete_batch is called for a batch that has an id, and
\* the id is dropped; the thread is back in monitor_loop
FinishPoll(l) ==
    /\ pp_pc[l] = "next"
    /\ todo[l] = {} \/ ~running
    /\ todo' = [todo EXCEPT ![l] = {}]
    /\ current_batch_id' = 0
    /\ pp_pc' = [pp_pc EXCEPT ![l] = "head"]
    /\ UNCHANGED <<running, polls, cur, lwork, ledit, processed_files, aac_uploaded,
                   work, ret, edits_failed, nvars, svars, tvars, wvars, fvars, mvars, rvars>>

NextProcessor ==
    \/ stop
    \/ \E l \in Loops :
        \/ start(l)
        \/ LoopExit(l)
        \/ \E bucket \in SUBSET Files, created \in BOOLEAN :
              process_pending_files(l, bucket, created)
        \/ \E f \in Files : process_file(l, f)
        \/ \E r \in EditOutcomes : MarkProcessing(l, r)
        \/ \E ok \in BOOLEAN : Work(l, ok)
        \/ \E r \in EditOutcomes : MarkComplete(l, r)
        \/ \E r \in EditOutcomes : MarkError(l, r)
        \/ FinishPoll(l)

(***************************************************************************)
(* Part IV.  One run of the API upload tests: APIUploadTester driven by    *)
(* api_upload_tests.main, by sunday_morning_stress_test.main or by a       *)
(* phase helper of run_api_tests, and the SermonUploaderAPI operations     *)
(* it calls.                                                               *)
(***************************************************************************)
Callers == {"api_main", "stress_main", "phase_helper"}

\* the operations of SermonUploaderAPI that issue an upload-related request
ApiOps == {"upload_direct", "get_presigned_url", "upload_presigned",
           "get_presigned_urls_batch", "check_duplicate"}

\* final status codes of a response
Statuses == {200, 204, 404, 500}

NoRet == [op |-> "none", exc |-> FALSE, status |-> 0,
          raised |-> FALSE, success |-> FALSE, payload |-> "none", timed |-> FALSE]

\* the value of the expression the operation returns after the response came
\* in, or "raise" where evaluating it raises: response.json() raises on a body
\* that is no JSON
OnResponse(op, status, json) ==
    CASE op = "upload_presigned" ->
            IF status \in {200, 204} THEN [success |-> TRUE, payload |-> "message"]
            ELSE [success |-> FALSE, payload |-> "error"]
      [] op = "check_duplicate" ->
            IF json THEN [success |-> (status = 200), payload |-> "json"]
            ELSE [success |-> FALSE, payload |-> "raise"]
      [] OTHER ->
            IF status = 200
            THEN (IF json THEN [success |-> TRUE, payload |-> "json"]
                  ELSE [success |-> FALSE, payload |-> "raise"])
            ELSE [success |-> FALSE, payload |-> "error"]

ApiCall_NoExcept(op, exc, status, json) ==
    LET r == OnResponse(op, status, json) IN
    IF exc \/ r.payload = "raise"
    THEN [op |-> op, exc |-> exc, status |-> IF exc THEN 0 ELSE status,
          raised |-> TRUE, success |-> FALSE, payload |-> "none", timed |-> FALSE]
    ELSE [op |-> op, exc |-> FALSE, status |-> status,
          raised |-> FALSE, success |-> r.success, payload |-> r.payload, timed |-> TRUE]

\* one operation of SermonUploaderAPI: the request either raises (exc) or is
\* answered; `except Exception` turns whatever the try-block raised into
\* (False, {"error": str(e)}, duration)
ApiCall(op, exc, status, json) ==
    LET r == OnResponse(op, status, json) IN
    IF exc \/ r.payload = "raise"
    THEN [op |-> op, exc |-> exc, status |-> IF exc THEN 0 ELSE status,
          raised |-> FALSE, success |-> FALSE, payload |-> "error", timed |-> TRUE]
    ELSE [op |-> op, exc |-> FALSE, status |-> status,
          raised |-> FALSE, success |-> r.success, payload |-> r.payload, timed |-> TRUE]

InitTester ==
    /\ t_pc = "idle"
    /\ caller = "none"
    /\ healthy = FALSE
    /\ connected = FALSE
    /\ n_test_files = 0
    /\ session_open = FALSE
    /\ requests = 0
    /\ api_ret = NoRet
    /\ exit_code = "none"
    /\ batch_size = 0
    /\ b_next = 0
    /\ b_results = {}
    /\ b_total = -1
    /\ stress = "none"

\* a main() or a phase helper has built its tester and calls setup()
StartRun(c) ==
    /\ t_pc = "idle"
    /\ caller' = c
    /\ t_pc' = "setup"
    /\ UNCHANGED <<healthy, connected, n_test_files, session_open, requests, api_ret,
                   exit_code, batch_size, b_next, b_results, b_total, stress,
                   nvars, svars, pvars, wvars, fvars, mvars, rvars>>

SetupResult_IgnoresDiscovery(h, c, n) == h /\ c

\* what APIUploadTester.setup returns: health check, then connect, then a
\* discovery that found at least one file
SetupResult(h, c, n) == h /\ c /\ n > 0

\* leaving a main() through return 1 or through one of its except-branches:
\* the finally-clause runs teardown().  A phase helper of run_api_tests returns
\* None where it stands.
Fail ==
    IF caller = "phase_helper"
    THEN t_pc' = "exited" /\ exit_code' = "None"
    ELSE t_pc' = "teardown" /\ exit_code' = "1"

\* tester.setup() and the test of its result (a discovery that raises leads
\* the same way as one that finds nothing).  h: the health check passed,
\* c: connect() succeeded, n: number of files discovery returned.
setup(h, c, n) ==
    /\ t_pc = "setup"
    /\ healthy' = h
    /\ connected' = (h /\ c)
    /\ session_open' = (h /\ c)
    /\ n_test_files' = IF h /\ c THEN n ELSE 0
    /\ IF SetupResult(h, c, n)
       THEN t_pc' = "tests" /\ UNCHANGED exit_code
       ELSE Fail
    /\ UNCHANGED <<caller, requests, api_ret, batch_size, b_next, b_results, b_total, stress,
                   nvars, svars, pvars, wvars, fvars, mvars, rvars>>

\* a test calls an operation of SermonUploaderAPI (single-file tests, stress
\* workers, scenario uploads); an exception that escaped the operation would
\* be caught by the test around it, not modelled further
ApiOperation(op, exc, status, json) ==
    /\ t_pc = "tests"
    /\ requests < MaxRequests
    /\ requests' = requests + 1
    /\ api_ret' = ApiCall(op, exc, status, json)
    /\ UNCHANGED <<t_pc, caller, healthy, connected, n_test_files, session_open,
                   exit_code, batch_size, b_next, b_results, b_total, stress,
                   nvars, svars, pvars, wvars, fvars, mvars, rvars>>

\* test_batch_upload(test_files, batch_size) is entered with all discovered files
test_batch_upload(bs) ==
    /\ t_pc = "tests"
    /\ b_total = -1
    /\ batch_size' = bs
    /\ b_next' = 0
    /\ b_results' = {}
    /\ t_pc' = "batch"
    /\ UNCHANGED <<caller, healthy, connected, n_test_files, session_open, requests, api_ret,
                   exit_code, b_total, stress, nvars, svars, pvars, wvars, fvars, mvars, rvars>>

\* the files test_files[i : i + batch_size]
Batch(i, bs, n) == {j \in 0..(n - 1) : i <= j /\ j < i + bs}

\* the files of a batch that get an UploadResult: none when the URL request
\* failed (continue) or when read_file_chunk raised while the uploads were
\* submitted (the exception leaves _upload_batch_concurrent and is logged by
\* test_batch_upload); otherwise the files found in the URL mapping
BatchResults(batch, got_urls, urls, read_ok) ==
    IF got_urls /\ read_ok THEN batch \cap urls ELSE {}

\* one round of the loop of test_batch_upload (lines 488-507) with
\* _upload_batch_concurrent
BatchStep(exc, status, json, urls, read_ok) ==
    /\ t_pc = "batch"
    /\ b_next < n_test_files
    /\ LET batch == Batch(b_next, batch_size, n_test_files)
           r == ApiCall("get_presigned_urls_batch", exc, status, json)
       IN /\ api_ret' = r
          /\ b_results' = b_results \cup BatchResults(batch, r.success, urls, read_ok)
    /\ requests' = IF requests < MaxRequests THEN requests + 1 ELSE requests
    /\ b_next' = b_next + batch_size
    /\ UNCHANGED <<t_pc, caller, healthy, connected, n_test_files, session_open,
                   exit_code, batch_size, b_total, stress, nvars, svars, pvars, wvars, fvars, mvars, rvars>>

\* test_batch_upload returns _calculate_metrics(..., results): total_files = len(results)
BatchReturn ==
    /\ t_pc = "batch"
    /\ b_next >= n_test_files
    /\ b_total' = Cardinality(b_results)
    /\ t_pc' = "tests"
    /\ UNCHANGED <<caller, healthy, connected, n_test_files, session_open, requests, api_ret,
                   exit_code, batch_size, b_next, b_results, stress, nvars, svars, pvars, wvars, fvars, mvars, rvars>>

\* test_stress_scenario called by api_upload_tests.main: the rounds of
\* uploads are collected with `for future in as_completed(futures, timeout=60)`.
\* in_time: every upload of every round finished inside its 60 seconds, and
\* the metrics are returned.  Otherwise the iterator raises TimeoutError in the
\* for-statement, outside the try of the loop body: the exception leaves
\* test_stress_scenario and reaches the except-branch of main.
test_stress_scenario(in_time) ==
    /\ t_pc = "tests"
    /\ caller = "api_main"
    /\ stress = "none"
    /\ requests' = IF requests < MaxRequests THEN requests + 1 ELSE requests
    /\ IF in_time
       THEN stress' = "returned" /\ UNCHANGED <<t_pc, exit_code>>
       ELSE stress' = "timed_out" /\ Fail
    /\ UNCHANGED <<caller, healthy, connected, n_test_files, session_open, api_ret,
                   batch_size, b_next, b_results, b_total, nvars, svars, pvars, wvars, fvars, mvars, rvars>>

\* the tests are over: main() returns 0 through its finally-clause; a phase
\* helper calls teardown() and returns its metrics
FinishTests ==
    /\ t_pc = "tests"
    /\ exit_code' = IF caller = "phase_helper" THEN "metrics" ELSE "0"
    /\ t_pc' = "teardown"
    /\ UNCHANGED <<caller, healthy, connected, n_test_files, session_open, requests, api_ret,
                   batch_size, b_next, b_results, b_total, stress, nvars, svars, pvars, wvars, fvars, mvars, rvars>>

\* teardown(): file_manager.disconnect() closes the session
teardown ==
    /\ t_pc = "teardown"
    /\ session_open' = FALSE
    /\ t_pc' = "exited"
    /\ UNCHANGED <<caller, healthy, connected, n_test_files, requests, api_ret,
                   exit_code, batch_size, b_next, b_results, b_total, stress,
                   nvars, svars, pvars, wvars, fvars, mvars, rvars>>

NextTester ==
    \/ \E c \in Callers : StartRun(c)
    \/ \E h \in BOOLEAN, c \in BOOLEAN, n \in 0..MaxFiles : setup(h, c, n)
    \/ \E op \in ApiOps, exc \in BOOLEAN, status \in Statuses, json \in BOOLEAN :
          ApiOperation(op, exc, status, json)
    \/ \E bs \in 1..MaxFiles : test_batch_upload(bs)
    \/ \E exc \in BOOLEAN, status \in Statuses, json \in BOOLEAN,
          urls \in SUBSET FileIdx, read_ok \in BOOLEAN :
          BatchStep(exc, status, json, urls, read_ok)
    \/ BatchReturn
    \/ \E in_time \in BOOLEAN : test_stress_scenario(in_time)
    \/ FinishTests
    \/ teardown

(***************************************************************************)
(* Specifications.                                                         *)
(***************************************************************************)
(***************************************************************************)
(* Part V.  pi-webhook-listener.py: the /webhook route with its signature  *)
(* check, and deploy() with its five commands.                             *)
(***************************************************************************)
Placeholder == "your-webhook-secret-here"

\* the values WEBHOOK_SECRET can have
Secrets == {Placeholder, "s1", "s2"}

\* request bodies: JSON objects with action "deploy" and with another action,
\* a JSON document that is no object, and a body that is no JSON
Bodies == {"deploy", "other", "notdict", "notjson"}

\* hmac.new(key, payload, sha256).hexdigest(): a digest is told by the key
\* and the payload it was made from
hexdigest(key, payload) == [kind |-> "hex", key |-> key, payload |-> payload]

\* the string f"sha256={expected}"
Prefixed(d) == [d EXCEPT !.kind = "sha256=hex"]

NoHeader == [kind |-> "None", key |-> "", payload |-> ""]

\* the values of the X-Hub-Signature-256 header: absent, the empty string, a
\* string with a character outside ASCII, a bare digest, a prefixed digest
Signatures ==
    {NoHeader, [NoHeader EXCEPT !.kind = "empty"], [NoHeader EXCEPT !.kind = "nonascii"]}
        \cup {hexdigest(k, b) : k \in Secrets, b \in Bodies}
        \cup {Prefixed(hexdigest(k, b)) : k \in Secrets, b \in Bodies}

\* hmac.compare_digest on two str: TypeError unless both are ASCII
compare_digest(a, b) ==
    IF a.kind = "nonascii" \/ b.kind = "nonascii" THEN "TypeError"
    ELSE IF a = b THEN "True" ELSE "False"

verify_webhook_signature(payload, signature) ==
    IF signature.kind \in {"None", "empty"} THEN "False"
    ELSE compare_digest(Prefixed(hexdigest(WEBHOOK_SECRET, payload)), signature)

\* the five commands of deploy(), in the order of the source
DeploySteps == <<"git pull", "compose pull", "compose down", "compose up", "image prune">>

NoRequest == [signature |-> NoHeader, body |-> "none"]
NotReturned == [success |-> "none", message |-> ""]

InitWebhook ==
    /\ WEBHOOK_SECRET \in Secrets
    /\ w_pc = "idle"
    /\ w_req = NoRequest
    /\ deployed = FALSE
    /\ steps_run = <<>>
    /\ exits = <<>>
    /\ d_ret = NotReturned
    /\ response = 0

\* webhook() lines 97-116, up to the call of deploy() or the answer that is
\* given without it.  An exception that leaves the view is answered 500.
Route(signature, body) ==
    LET checked == IF WEBHOOK_SECRET # Placeholder
                   THEN verify_webhook_signature(body, signature)
                   ELSE "True"
    IN  CASE checked = "TypeError" -> 500
          [] checked = "False" -> 401
          [] body = "notjson" -> 400
          [] body = "notdict" -> 500
          [] body = "deploy" -> 0
          [] OTHER -> 200

webhook(signature, body) ==
    /\ w_pc = "idle"
    /\ w_req' = [signature |-> signature, body |-> body]
    /\ steps_run' = <<>>
    /\ exits' = <<>>
    /\ d_ret' = NotReturned
    /\ response' = Route(signature, body)
    /\ deployed' = (Route(signature, body) = 0)
    /\ w_pc' = IF Route(signature, body) = 0 THEN "chdir" ELSE "idle"
    /\ UNCHANGED <<WEBHOOK_SECRET, nvars, svars, pvars, tvars, fvars, mvars, rvars>>

\* deploy() line 54: os.chdir; an OSError is caught by `except Exception`
chdir(ok) ==
    /\ w_pc = "chdir"
    /\ IF ok
       THEN /\ w_pc' = "step"
            /\ UNCHANGED d_ret
       ELSE /\ w_pc' = "respond"
            /\ d_ret' = [success |-> "False", message |-> "Unexpected error"]
    /\ UNCHANGED <<WEBHOOK_SECRET, w_req, deployed, steps_run, exits, response,
                   nvars, svars, pvars, tvars, fvars, mvars, rvars>>

subprocess_run_Unchecked(exit) ==
    CASE exit = "zero" -> "returned"
      [] exit = "nonzero" -> "returned"
      [] OTHER -> "OSError"

\* subprocess.run(cmd, check=True): returns after exit status 0, raises
\* CalledProcessError after another status, OSError when the command could
\* not be started
subprocess_run(exit) ==
    CASE exit = "zero" -> "returned"
      [] exit = "nonzero" -> "CalledProcessError"
      [] OTHER -> "OSError"

\* deploy() lines 56-92: the next command is run; after the fifth, True is
\* returned; an exception ends deploy() in one of its two except-branches
step(exit) ==
    /\ w_pc = "step"
    /\ Len(steps_run) < Len(DeploySteps)
    /\ steps_run' = Append(steps_run, DeploySteps[Len(steps_run) + 1])
    /\ exits' = Append(exits, exit)
    /\ LET r == subprocess_run(exit) IN
         CASE r = "CalledProcessError" ->
                  /\ d_ret' = [success |-> "False", message |-> "Deployment failed"]
                  /\ w_pc' = "respond"
           [] r = "OSError" ->
                  /\ d_ret' = [success |-> "False", message |-> "Unexpected error"]
                  /\ w_pc' = "respond"
           [] OTHER ->
                  IF Len(steps_run) + 1 = Len(DeploySteps)
                  THEN /\ d_ret' = [success |-> "True", message |-> "Deployment successful"]
                       /\ w_pc' = "respond"
                  ELSE UNCHANGED <<d_ret, w_pc>>
    /\ UNCHANGED <<WEBHOOK_SECRET, w_req, deployed, response, nvars, svars, pvars, tvars, fvars, mvars, rvars>>

\* webhook() lines 118-126: the Discord notification, which raises nothing,
\* and the answer: 200 after success, 500 otherwise
respond ==
    /\ w_pc = "respond"
    /\ response' = IF d_ret.success = "True" THEN 200 ELSE 500
    /\ w_pc' = "idle"
    /\ UNCHANGED <<WEBHOOK_SECRET, w_req, deployed, steps_run, exits, d_ret,
                   nvars, svars, pvars, tvars, fvars, mvars, rvars>>

NextWebhook ==
    \/ \E signature \in Signatures, body \in Bodies : webhook(signature, body)
    \/ \E ok \in BOOLEAN : chdir(ok)
    \/ \E exit \in {"zero", "nonzero", "notstarted"} : step(exit)
    \/ respond

(***************************************************************************)
(* Part VI.  api_upload_tests.py, RidgepointFileManager: the categories    *)
(* that discover_wav_files gives the files of the listing.                 *)
(***************************************************************************)
\* bytes in the megabyte of _categorize_file (1024 * 1024)
MB == 1048576

\* the sizes listed: up to MaxOffset bytes around whole numbers of megabytes
Sizes ==
    {s \in {m * MB + d : m \in {0, 1, 99, 100, 101, 499, 500, 501, 999, 1000, 1001,
                                 1023, 1024, 1025, 2047},
                         d \in (0 - MaxOffset)..MaxOffset} : s > 0}

\* _categorize_file: mb = size / (1024 * 1024) is compared with 100, 500 and
\* 1000.  The division by a power of two is exact, so mb < k holds exactly
\* when size < k * 1024 * 1024.
_categorize_file(size) ==
    IF size < 100 * MB THEN "small"
    ELSE IF size < 500 * MB THEN "medium"
    ELSE IF size < 1000 * MB THEN "large"
    ELSE "xlarge"

InitFiles ==
    /\ f_size \in Sizes
    /\ f_category = "none"

\* discover_wav_files lines 163-176: a line with a positive size becomes a
\* TestFile with the category of its size
MakeTestFile ==
    /\ f_category = "none"
    /\ f_size > 0
    /\ f_category' = _categorize_file(f_size)
    /\ UNCHANGED <<f_size, nvars, svars, pvars, tvars, wvars, mvars, rvars>>

\* discover_wav_files line 159: the next line of the listing
NextLine(size) ==
    /\ f_category # "none"
    /\ f_size' = size
    /\ f_category' = "none"
    /\ UNCHANGED <<nvars, svars, pvars, tvars, wvars, mvars, rvars>>

NextFiles ==
    \/ MakeTestFile
    \/ \E size \in Sizes : NextLine(size)

(***************************************************************************)
(* Part VII.  api_upload_tests.py, APIUploadTester._calculate_metrics.     *)
(*                                                                         *)
(* Python floats are binary floating-point numbers; every operation        *)
(* rounds its exact result to the nearest representable number, ties to    *)
(* even.  The model keeps that arithmetic with a significand of            *)
(* MantissaBits bits: a float is [m, e] with value m * 2^e, where          *)
(* 2^(MantissaBits-1) <= m < 2^MantissaBits, or m = 0.                     *)
(***************************************************************************)
Zero == [m |-> 0, e |-> 0]

Min2(a, b) == IF a < b THEN a ELSE b

\* a / b rounded to the nearest integer, ties to the even one
RoundHalfEven(a, b) ==
    LET q == a \div b
        r == a % b
    IN  IF 2 * r < b THEN q
        ELSE IF 2 * r > b THEN q + 1
        ELSE q + (q % 2)

RECURSIVE Exponent(_, _, _)
\* the k with 2^(MantissaBits-1) <= num / den / 2^k < 2^MantissaBits, from k on
Exponent(num, den, k) ==
    LET N == IF k < 0 THEN num * 2^(0 - k) ELSE num
        D == IF k > 0 THEN den * 2^k ELSE den
    IN  IF N >= 2^MantissaBits * D THEN Exponent(num, den, k + 1)
        ELSE IF N < 2^(MantissaBits - 1) * D THEN Exponent(num, den, k - 1)
        ELSE k

\* the float nearest to num / den * 2^e0 (num >= 0, den > 0)
Round(num, den, e0) ==
    IF num = 0 THEN Zero
    ELSE LET k == Exponent(num, den, 0)
             m == IF k < 0 THEN RoundHalfEven(num * 2^(0 - k), den)
                  ELSE RoundHalfEven(num, den * 2^k)
         IN  IF m = 2^MantissaBits
             THEN [m |-> 2^(MantissaBits - 1), e |-> k + 1 + e0]
             ELSE [m |-> m, e |-> k + e0]

\* float * int, float + float, float / int, int / int, float <= float
FMulInt(x, k) == Round(x.m * k, 1, x.e)
FAdd(a, b) ==
    IF a.m = 0 THEN b
    ELSE IF b.m = 0 THEN a
    ELSE LET e0 == Min2(a.e, b.e)
         IN  Round(a.m * 2^(a.e - e0) + b.m * 2^(b.e - e0), 1, e0)
FDivInt(a, n) == Round(a.m, n, a.e)
IntDiv(a, b) == Round(a, b, 0)
FLeq(a, b) ==
    IF a.m = 0 THEN TRUE
    ELSE IF b.m = 0 THEN FALSE
    ELSE LET e0 == Min2(a.e, b.e)
         IN  a.m * 2^(a.e - e0) <= b.m * 2^(b.e - e0)

\* the durations of the results tried: the first MaxDurations floats from 1.0
\* upward, and 0 (the duration given to a result that failed at once)
Durations ==
    {[m |-> 2^(MantissaBits - 1) + i, e |-> 1 - MantissaBits] : i \in 0..(MaxDurations - 1)}
        \cup {Zero}

\* how many equal results a run holds
Counts == {1, 19, 80}

\* file_size of every result, and throughput_mbps of every successful one
FileSize == 5
Throughput == [m |-> 2^(MantissaBits - 1), e |-> 3]

\* n results with the same success and duration: successful ones, with
\* api_response_time equal to the duration and with throughput_mbps set, as
\* test_direct_upload makes them, and failed ones with duration 0 and no
\* api_response_time, as the except-branches make them
Runs ==
    {r \in [n : Counts, success : BOOLEAN, duration : Durations] :
        r.success <=> r.duration # Zero}

NoMetrics ==
    [total_files |-> -1, successful_uploads |-> 0, failed_uploads |-> 0, total_bytes |-> 0,
     avg_throughput_mbps |-> Zero, success_rate |-> Zero,
     min_duration |-> Zero, max_duration |-> Zero, p50_duration |-> Zero,
     p95_duration |-> Zero, p99_duration |-> Zero,
     avg_api_response_time |-> Zero, min_api_response_time |-> Zero,
     max_api_response_time |-> Zero]

InitMetrics ==
    /\ m_results = <<>>
    /\ m_metrics = NoMetrics

RECURSIVE Count(_)
\* len() of a list of runs
Count(rs) == IF rs = <<>> THEN 0 ELSE Head(rs).n + Count(Tail(rs))

RECURSIVE AddTimes(_, _, _)
\* acc + x + ... + x (n times), added one after the other as sum() does
AddTimes(acc, x, n) ==
    IF n = 0 THEN acc
    ELSE LET v == FAdd(acc, x)
         IN  IF v.m >= 0 THEN AddTimes(v, x, n - 1) ELSE v

RECURSIVE SumDurations(_, _)
\* sum() of the durations of a list of runs, from acc
SumDurations(acc, rs) ==
    IF rs = <<>> THEN acc
    ELSE SumDurations(AddTimes(acc, Head(rs).duration, Head(rs).n), Tail(rs))

RECURSIVE SumThroughput(_, _)
\* sum(r.throughput_mbps for r in successful_results if r.throughput_mbps)
SumThroughput(acc, rs) ==
    IF rs = <<>> THEN acc
    ELSE SumThroughput(AddTimes(acc, Throughput, Head(rs).n), Tail(rs))

RECURSIVE Insert(_, _)
Insert(r, rs) ==
    IF rs = <<>> THEN <<r>>
    ELSE IF FLeq(r.duration, Head(rs).duration) THEN <<r>> \o rs
    ELSE <<Head(rs)>> \o Insert(r, Tail(rs))

RECURSIVE sorted(_)
\* sorted(data): the runs in ascending order of their durations
sorted(rs) == IF rs = <<>> THEN <<>> ELSE Insert(Head(rs), sorted(Tail(rs)))

RECURSIVE At(_, _)
\* data[j] (0-based) of a list of runs
At(rs, j) == IF j < Head(rs).n THEN Head(rs).duration ELSE At(Tail(rs), j - Head(rs).n)

\* statistics.median: the middle value, or the mean of the two middle values
median(rs) ==
    LET data == sorted(rs)
        n == Count(rs)
    IN  IF n % 2 = 1 THEN At(data, n \div 2)
        ELSE FDivInt(FAdd(At(data, n \div 2 - 1), At(data, n \div 2)), 2)

\* statistics.quantiles(data, n=n)[i - 1], method 'exclusive'
quantiles(rs, n, i) ==
    LET data == sorted(rs)
        ld == Count(rs)
        m == ld + 1
        j0 == (i * m) \div n
        j == IF j0 < 1 THEN 1 ELSE IF j0 > ld - 1 THEN ld - 1 ELSE j0
        delta == i * m - j * n
    IN  FDivInt(FAdd(FMulInt(At(data, j - 1), n - delta), FMulInt(At(data, j), delta)), n)

\* what a division by zero gives: the exception, not a number
ZeroDivisionError == [m |-> -1, e |-> 0]

success_rate_Unguarded(succ, total) ==
    IF total = 0 THEN ZeroDivisionError ELSE FMulInt(IntDiv(succ, total), 100)

\* line 716: (len(successful_results) / len(results) * 100) if results else 0
success_rate(succ, total) ==
    IF total = 0 THEN Zero ELSE FMulInt(IntDiv(succ, total), 100)

\* _calculate_metrics lines 697-729 (total_duration is the time between the
\* two datetime arguments and no function of the results)
_calculate_metrics(rs) ==
    LET successful_results == SelectSeq(rs, LAMBDA r : r.success)
        failed_results == SelectSeq(rs, LAMBDA r : ~r.success)
        durations == SelectSeq(rs, LAMBDA r : r.duration # Zero)
        api_times == durations
        ld == Count(durations)
        d == sorted(durations)
        min_d == IF ld > 0 THEN At(d, 0) ELSE Zero
        max_d == IF ld > 0 THEN At(d, ld - 1) ELSE Zero
    IN  [total_files |-> Count(rs),
         successful_uploads |-> Count(successful_results),
         failed_uploads |-> Count(failed_results),
         total_bytes |-> FileSize * Count(successful_results),
         avg_throughput_mbps |->
             IF successful_results # <<>>
             THEN FDivInt(SumThroughput(Zero, successful_results), Count(successful_results))
             ELSE Zero,
         success_rate |-> success_rate(Count(successful_results), Count(rs)),
         min_duration |-> min_d,
         max_duration |-> max_d,
         p50_duration |-> IF ld > 0 THEN median(durations) ELSE Zero,
         p95_duration |-> IF ld >= 20 THEN quantiles(durations, 20, 19) ELSE max_d,
         p99_duration |-> IF ld >= 100 THEN quantiles(durations, 100, 99) ELSE max_d,
         avg_api_response_time |->
             IF ld > 0 THEN FDivInt(SumDurations(Zero, api_times), ld) ELSE Zero,
         min_api_response_time |-> min_d,
         max_api_response_time |-> max_d]

\* a test appends the results of its uploads to the list
AddResults(r) ==
    /\ m_metrics = NoMetrics
    /\ Len(m_results) < MaxRuns
    /\ m_results' = Append(m_results, r)
    /\ UNCHANGED <<m_metrics, nvars, svars, pvars, tvars, wvars, fvars, rvars>>

\* the test ends with _calculate_metrics on its list
CalculateMetrics ==
    /\ m_metrics = NoMetrics
    /\ m_metrics' = _calculate_metrics(m_results)
    /\ UNCHANGED <<m_results, nvars, svars, pvars, tvars, wvars, fvars, rvars>>

NextMetrics ==
    \/ \E r \in Runs : AddResults(r)
    \/ CalculateMetrics

(***************************************************************************)
(* Part VIII.  The report generators: APIUploadTester.generate_report and  *)
(* SundayMorningStressTester.generate_stress_report, with the thread that  *)
(* samples the system metrics between setup() and teardown().              *)
(***************************************************************************)
\* the samples of system_metrics that enter a stress report (line 426)
LastSamples == 100

\* the limits of the simulated cpu_usage of a sample (line 386)
CpuUsages == {20, 90}

\* the metrics a list can hold: a scenario that went well and one that did not
MetricsValues ==
    {[test_name |-> "peak", total_files |-> 2, success_rate |-> 100,
      avg_throughput_mbps |-> 10, avg_api_response_time |-> 1],
     [test_name |-> "late", total_files |-> 2, success_rate |-> 50,
      avg_throughput_mbps |-> 4, avg_api_response_time |-> 3]}

MetricsLists == UNION {[1..n -> MetricsValues] : n \in 0..MaxScenarios}

InitReports ==
    /\ clock = 0
    /\ monitoring = "off"
    /\ system_metrics = <<>>
    /\ generator = "none"
    /\ metrics_list = <<>>
    /\ reports = <<>>

\* seq[-n:]
Last(seq, n) ==
    IF Len(seq) <= n THEN seq ELSE SubSeq(seq, Len(seq) - n + 1, Len(seq))

\* generate_report lines 745-769: the entry of one TestMetrics
TestResult(m) ==
    [test_name |-> m.test_name,
     files_tested |-> m.total_files,
     success_rate_percent |-> m.success_rate,
     avg_throughput_mbps |-> m.avg_throughput_mbps,
     avg_api_response_time |-> m.avg_api_response_time]

\* generate_report lines 734-775: the document written
generate_report(list) ==
    [timestamp |-> clock,
     total |-> Len(list),
     system_metrics |-> <<>>,
     results |-> [i \in 1..Len(list) |-> TestResult(list[i])]]

\* generate_stress_report lines 430-472: the entry of one TestMetrics
ScenarioResult(m) ==
    [scenario_name |-> m.test_name,
     files_processed |-> m.total_files,
     success_rate |-> m.success_rate,
     avg_throughput_mbps |-> m.avg_throughput_mbps,
     avg_api_response_time |-> m.avg_api_response_time,
     system_stability |-> IF m.success_rate > 90 THEN "stable" ELSE "unstable",
     bottlenecks_detected |->
         (IF m.avg_api_response_time > 2 THEN <<"High API response times">> ELSE <<>>)
             \o (IF m.avg_throughput_mbps < 5 THEN <<"Low throughput">> ELSE <<>>)
             \o (IF m.success_rate < 95 THEN <<"Upload failures">> ELSE <<>>)]

\* generate_stress_report lines 417-477: the document written
generate_stress_report(list) ==
    [timestamp |-> clock,
     total |-> Len(list),
     system_metrics |-> Last(system_metrics, LastSamples),
     results |-> [i \in 1..Len(list) |-> ScenarioResult(list[i])]]

\* time passes
ClockTick ==
    /\ clock < MaxClock
    /\ clock' = clock + 1
    /\ UNCHANGED <<monitoring, system_metrics, generator, metrics_list, reports,
                   nvars, svars, pvars, tvars, wvars, fvars, mvars>>

\* SundayMorningStressTester.setup: the monitoring thread is started
StartMonitoring ==
    /\ monitoring = "off"
    /\ monitoring' = "on"
    /\ UNCHANGED <<clock, system_metrics, generator, metrics_list, reports,
                   nvars, svars, pvars, tvars, wvars, fvars, mvars>>

\* _monitor_system_metrics, one round of its loop: a sample is appended
Sample(cpu) ==
    /\ monitoring = "on"
    /\ Len(system_metrics) < MaxSamples
    /\ system_metrics' = Append(system_metrics, [timestamp |-> clock, cpu_usage |-> cpu])
    /\ UNCHANGED <<clock, monitoring, generator, metrics_list, reports,
                   nvars, svars, pvars, tvars, wvars, fvars, mvars>>

\* SundayMorningStressTester.teardown: the monitoring thread is stopped and joined
StopMonitoring ==
    /\ monitoring = "on"
    /\ monitoring' = "stopped"
    /\ UNCHANGED <<clock, system_metrics, generator, metrics_list, reports,
                   nvars, svars, pvars, tvars, wvars, fvars, mvars>>

\* a generator is called with a list of metrics, and then once more with the
\* same list
Generate(g, list) ==
    /\ Len(reports) < 2
    /\ IF reports = <<>>
       THEN generator' = g /\ metrics_list' = list
       ELSE g = generator /\ list = metrics_list /\ UNCHANGED <<generator, metrics_list>>
    /\ reports' = Append(reports, IF g = "generate_report"
                                  THEN generate_report(list)
                                  ELSE generate_stress_report(list))
    /\ UNCHANGED <<clock, monitoring, system_metrics,
                   nvars, svars, pvars, tvars, wvars, fvars, mvars>>

NextReports ==
    \/ ClockTick
    \/ StartMonitoring
    \/ \E cpu \in CpuUsages : Sample(cpu)
    \/ StopMonitoring
    \/ \E g \in {"generate_report", "generate_stress_report"}, list \in MetricsLists :
          Generate(g, list)

Init == InitNotifier /\ InitScenario /\ InitProcessor /\ InitTester /\ InitWebhook /\ InitFiles /\ InitMetrics /\ InitReports

\* one initial state of each part whose Init draws its inputs; the
\* specification of a part leaves the other parts in it
FixedWebhook == WEBHOOK_SECRET = Placeholder
FixedFiles == f_size = MB

\* the initial states of the specification of one part
InitOthers == Init /\ FixedWebhook /\ FixedFiles
InitOfWebhook == Init /\ FixedFiles
InitOfFiles == Init /\ FixedWebhook

Next == NextNotifier \/ NextScenario \/ NextProcessor \/ NextTester \/ NextWebhook \/ NextFiles \/ NextMetrics \/ NextReports

Spec == Init /\ [][Next]_vars

\* the notifier and the tracker alone
SpecNotifier == InitOthers /\ [][NextNotifier]_vars

\* one scenario run alone
SpecScenario == InitOthers /\ [][NextScenario]_vars

\* the processor alone
SpecProcessor == InitOthers /\ [][NextProcessor]_vars

\* one run of the API upload tests alone
SpecTester == InitOthers /\ [][NextTester]_vars

\* the webhook listener alone
SpecWebhook == InitOfWebhook /\ [][NextWebhook]_vars

\* the file discovery alone
SpecFiles == InitOfFiles /\ [][NextFiles]_vars

\* _calculate_metrics alone
SpecMetrics == InitOthers /\ [][NextMetrics]_vars

\* the report generators alone
SpecReports == InitOthers /\ [][NextReports]_vars

(***************************************************************************)
(* Claims.                                                                 *)
(***************************************************************************)
InOrder(s) == \E i \in 1..Len(stages_order) : stages_order[i] = s

\* C1: a file's stage never moves to an earlier stage of the order
\* DETECTED < UPLOADING < UPLOADED < PROCESSING < COMPLETED, whatever
\* update_progress / mark_file_* calls are made.
C1_StageNeverRegresses ==
    [][\A m \in MsgIds : \A f \in (DOMAIN stages[m]) \cap (DOMAIN stages'[m]) :
          (InOrder(stages[m][f]) /\ InOrder(stages'[m][f]))
              => StageIndex(stages'[m][f]) >= StageIndex(stages[m][f])]_vars

\* C2: ERROR is terminal: a file whose stage is ERROR keeps that stage.
C2_ErrorIsTerminal ==
    [][\A m \in MsgIds : \A f \in (DOMAIN stages[m]) \cap (DOMAIN stages'[m]) :
          stages[m][f] = "ERROR" => stages'[m][f] = "ERROR"]_vars

\* the worker of task i raised inside _upload_with_monitoring
Raised(i) == task[i].st = "done" /\ task[i].result.method = "stress_monitored"

\* the entries of the result list that belong to file i
EntriesOf(i) == {k \in 1..Len(results) : results[k].file = i}

\* C3: a run in which an upload worker raised still returns, with exactly one
\* entry per submitted file, and the entry of a worker that raised is a failed
\* UploadResult with a populated error.
C3_WorkerExceptionRecorded ==
    (sc_pc \in {"returned", "raised"} /\ \E i \in FileIdx : Raised(i))
        => /\ sc_pc = "returned"
           /\ \A i \in 0..(submitted - 1) : Cardinality(EntriesOf(i)) = 1
           /\ \A i \in FileIdx : Raised(i) =>
                 \E k \in EntriesOf(i) : /\ ~results[k].success
                                         /\ results[k].error \notin {"none", ""}

\* Lemma to C3: in the runs in which no await timed out the statement of C3
\* holds; its failures all pass through a future.result timeout.
L3_HoldsWithoutTimeout == timed_out = {} => C3_WorkerExceptionRecorded

\* C4: every task that was unfinished when its await timed out is in the
\* returned result list exactly once, as a failed UploadResult whose error
\* names the timeout.
C4_TimeoutRecorded ==
    sc_pc = "returned"
        => \A i \in timed_out :
              /\ Cardinality(EntriesOf(i)) = 1
              /\ \A k \in EntriesOf(i) : ~results[k].success /\ results[k].error = "timeout"

\* C5: once every await has returned or timed out the scenario function
\* returns, also while a task it gave up on is still running.
C5_ReturnsWithoutBlocking ==
    (sc_pc = "shutdown" /\ \E i \in timed_out : task[i].st # "done") => ENABLED ExecutorExit

\* C6: at most concurrent_uploads tasks are executing on pool workers, tasks
\* sleeping in their start delay included.
C6_PoolBound == Cardinality(Executing) <= concurrent_uploads

\* C6 witness: the pool is full, one of its tasks sleeps in its start delay,
\* and a further task waits in the queue.
C6_PoolFull ==
    /\ concurrent_uploads > 0
    /\ Cardinality(Executing) = concurrent_uploads
    /\ \E i \in Executing : task[i].st = "sleeping"
    /\ Queued # {}

\* C7: no two workers are inside read_file_chunk on the shared SFTP client at
\* the same time.
C7_SerialRemoteRead == Cardinality({i \in FileIdx : task[i].st = "reading"}) <= 1

\* a thread whose next step reads or writes a message's stage mapping
AccessesMapping(t) == pc[t] \in {"up_locked", "up_embed", "cb_read"}

\* C8: a thread reads or writes the stage mapping of a message only while it
\* holds message_lock.
C8_MappingUnderLock == \A t \in Threads : AccessesMapping(t) => message_lock = t

\* C9: in the staggered pattern upload i begins at an offset in
\* [i * interval, i * interval + 0.3 * interval), interval = budget / N
\* (a task enters "reading" at the moment its upload begins).
C9_StaggeredStart ==
    upload_pattern = "staggered"
        => \A i \in FileIdx : task[i].st = "reading"
              => /\ i * duration_minutes <= now * n_files
                 /\ 10 * (now * n_files - i * duration_minutes) < 3 * duration_minutes

\* Lemma to C9: with a worker for every file the staggered offsets are kept.
L9_HoldsWithWorkerPerFile == concurrent_uploads >= n_files => C9_StaggeredStart

\* C10: the returned result list is in completion order (stated for the runs
\* in which no await timed out, so that the list holds the tasks' own results).
C10_CompletionOrder ==
    (sc_pc = "returned" /\ timed_out = {})
        => [k \in 1..Len(results) |-> results[k].file] = completion

\* C11: every entry of the returned result list carries the test_id its task
\* was submitted with (pattern prefix and submission index), so the ids of one
\* run are pairwise distinct.
C11_ResultCarriesTaskId ==
    sc_pc = "returned"
        => /\ \A k \in 1..Len(results) :
                 results[k].test_id = <<IdPrefix(upload_pattern), results[k].file>>
           /\ \A k, l \in 1..Len(results) :
                 k # l => results[k].test_id # results[l].test_id

\* C12: in the random pattern nothing is submitted once the budget end time
\* has passed; the files left over are never attempted and have no entry in
\* the results, and the run does not fail because of them.
C12_NoSubmitAfterBudget ==
    upload_pattern = "random"
        => /\ sc_pc # "raised"
           /\ (sc_pc = "submit" /\ now >= duration_minutes)
                 => ~ENABLED (\E dl \in 0..MaxTime : Submit(dl))
           /\ \A i \in FileIdx :
                 i >= submitted => task[i].st = "none" /\ EntriesOf(i) = {}

\* C12 witness: a random run returned its results although a file was left
\* unsubmitted when the budget ran out.
C12_FilesLeftOver ==
    /\ upload_pattern = "random"
    /\ sc_pc = "returned"
    /\ submitted < n_files
    /\ Len(results) = submitted
    /\ submitted > 0

\* C13: the remote service gets a new message only from start_batch_upload,
\* one per call, listing every file at DETECTED; whatever else changes what the
\* service shows for a message is an edit addressed to that message's id and
\* creates nothing.
C13_OneCreatePerBatch ==
    [][/\ remote_created' # remote_created
            => /\ remote_created' = remote_created + 1
               /\ \E t \in Threads : /\ pc[t] = "idle"
                                      /\ pc'[t] = "create_store"
                                      /\ call'[t].m = remote_created'
               /\ \A f \in DOMAIN remote_shown'[remote_created'].stages :
                     remote_shown'[remote_created'].stages[f] = "DETECTED"
       /\ \A m \in MsgIds :
             (m <= remote_created /\ remote_shown'[m] # remote_shown[m])
                => /\ remote_created' = remote_created
                   /\ \E t \in Threads : pc[t] \in {"up_patch", "cb_patch"} /\ call[t].m = m
      ]_vars

\* C13 witness: a batch is tracked, its one message exists and has received
\* an edit that shows a later stage.
C13_EditedInPlace ==
    /\ remote_created = 1
    /\ 1 \in active_batches
    /\ \E f \in DOMAIN remote_shown[1].stages : remote_shown[1].stages[f] # "DETECTED"

\* C14: a progress edit that fails (another status than 200, or an exception)
\* raises out of no tracker call and leaves the outcome of process_file what
\* download, conversion and upload made it: True after they worked, False
\* after one of them failed.
C14_FailedEditSwallowed ==
    \A f \in Files :
        /\ ret[f] # "raised"
        /\ ret[f] # "none" => ret[f] = (IF work[f] = "ok" THEN "True" ELSE "False")

\* C14 witness: two files went through process_file in a batch, every edit of
\* theirs failed on the way, one returned True and the other False.
C14_EditsFailedBothWays ==
    \E f, g \in edits_failed : ret[f] = "True" /\ ret[g] = "False"

\* C15: when complete_batch returns, the batch is tracked neither by the
\* tracker (active_batches) nor by the notifier (active_messages).
C15_CompleteBatchForgets ==
    [][\A t \in Threads :
          (pc[t] = "cb_patch" /\ pc'[t] = "idle")
             => /\ call[t].m \notin active_batches'
                /\ call[t].m \notin active_messages']_vars

\* the last operation's request raised (timeout, connection reset)
TransportFailure == api_ret.op # "none" /\ api_ret.exc

\* the last operation got a final response outside 2xx
Non2xx == api_ret.op # "none" /\ ~api_ret.exc /\ api_ret.status \notin {200, 204}

\* C16: no operation of SermonUploaderAPI lets an exception escape; a
\* transport failure comes back as success = False with an error entry and
\* the elapsed time, a response outside 2xx as success = False.
C16_ApiNeverRaises ==
    /\ ~api_ret.raised
    /\ TransportFailure => ~api_ret.success /\ api_ret.payload = "error" /\ api_ret.timed
    /\ Non2xx => ~api_ret.success

\* C16 witness: check_duplicate, the operation that parses the body without
\* looking at the status, came back from a failed request.
C16_DuplicateCheckFailed ==
    /\ api_ret.op = "check_duplicate"
    /\ TransportFailure
    /\ ~api_ret.success

\* C17: in the two main() functions an upload request is issued only after
\* the health check passed, the connection was made and discovery found a
\* file; a run whose setup failed ends with exit code 1 and no upload request.
C17_SetupFailureFatal ==
    caller \in {"api_main", "stress_main"}
        => /\ requests > 0 => healthy /\ connected /\ n_test_files > 0
           /\ (t_pc \in {"tests", "batch"}) => healthy /\ connected /\ n_test_files > 0
           /\ (t_pc \in {"teardown", "exited"} /\ ~(healthy /\ connected /\ n_test_files > 0))
                 => exit_code = "1" /\ requests = 0

\* C17 witness: a main() ended with exit code 1 because discovery found no
\* file, after the health check and the connection had worked.
C17_EmptyDiscoveryExit ==
    /\ caller \in {"api_main", "stress_main"}
    /\ t_pc = "exited"
    /\ healthy /\ connected /\ n_test_files = 0
    /\ exit_code = "1"

\* C18: when a run is over, the remote session that its setup() opened is
\* closed, whoever drove the tester and however the run ended.
C18_SessionClosed == t_pc = "exited" => ~session_open

\* C19: uploads of a stress round that do not finish within the collection
\* window do not fail the run: test_stress_scenario returns its metrics and
\* the exit code stays zero.
C19_StressTimeoutNotFatal ==
    (caller = "api_main" /\ stress = "timed_out") => exit_code # "1"

\* C20: the metrics test_batch_upload returns hold one UploadResult for each
\* input file: total_files is the number of input files.
C20_BatchRecordsEveryFile == b_total # -1 => b_total = n_test_files

\* C26: a scenario run with an empty selection of files does not raise and
\* returns the metrics of an empty result list, whatever the upload pattern.
C26_EmptySelectionReturns ==
    (upload_pattern \in Patterns /\ n_files = 0)
        => /\ sc_pc # "raised"
           /\ sc_pc = "returned" => results = <<>>

\* C27: when every update_progress call has returned and no edit failed, the
\* remote message shows for every file the stage stored locally (stated for
\* messages that complete_batch has not retitled).
C27_LastEditShowsFinalState ==
    \A m \in MsgIds :
        (/\ m \in active_messages
         /\ ~edit_failed
         /\ title[m] = "Uploading"
         /\ \A t \in Threads : pc[t] = "idle")
            => remote_shown[m] = _create_progress_embed(title[m], stages[m])

\* a step of the processor keeps to the bookkeeping of processed_files: the
\* names in it have their AAC object uploaded, a poll lists none of them as
\* pending, process_file is begun for none of them, and a conversion that
\* failed adds no name
ProcessedOnce ==
    /\ processed_files' \subseteq aac_uploaded'
    /\ \A l \in Loops :
         /\ (pp_pc[l] = "head" /\ pp_pc'[l] = "next")
               => todo'[l] \cap processed_files = {}
         /\ (pp_pc[l] = "next" /\ pp_pc'[l] = "mark_processing")
               => cur'[l] \notin processed_files
         /\ (pp_pc[l] = "work" /\ pp_pc'[l] = "mark_error")
               => processed_files' = processed_files

\* C28: a name enters processed_files only after its AAC object was uploaded,
\* get_pending_files returns no name that is in processed_files, process_file
\* is never begun for a file that was processed successfully before, and a
\* file whose processing failed is not added to processed_files.
C28_ProcessedFilesNotReprocessed == [][ProcessedOnce]_vars

\* with the one monitor_loop thread of a single start() the bookkeeping of
\* C28 holds
L28_HoldsWithOneLoop ==
    [][(pp_pc["m2"] = "none" /\ pp_pc'["m2"] = "none") => ProcessedOnce]_vars

\* C29: while running is set, at most one thread is in monitor_loop, whatever
\* the sequence of start() and stop() calls was.
C29_OneMonitorLoop ==
    running => Cardinality({l \in Loops : pp_pc[l] \notin {"none", "exited"}}) <= 1

\* the request handled last carried the signature its body has under the
\* configured secret
SignatureValid ==
    w_req.signature = Prefixed(hexdigest(WEBHOOK_SECRET, w_req.body))

\* C25: with a secret configured, a request whose X-Hub-Signature-256 header
\* is missing or is not sha256=HMAC-SHA256(secret, body) is answered 401, and
\* deploy() is not invoked and no deployment step runs for it.
C25_BadSignatureRejected ==
    (WEBHOOK_SECRET # Placeholder /\ w_req # NoRequest /\ ~SignatureValid)
        => /\ response = 401
           /\ ~deployed
           /\ steps_run = <<>>

\* with a secret configured, deploy() is not invoked for a request without
\* the valid signature, whatever the answer is
L25_NoDeployForBadSignature ==
    (WEBHOOK_SECRET # Placeholder /\ w_req # NoRequest /\ ~SignatureValid)
        => ~deployed /\ steps_run = <<>> /\ w_pc = "idle"

\* C30: deploy() starts its commands in the order git pull, image pull,
\* compose down, compose up, image prune; a command is started only after
\* every earlier one exited with status 0; after the first failing command
\* deploy() returns False and starts no other; True is returned only after
\* all five exited with status 0.
C30_DeployStepsInOrder ==
    /\ Len(steps_run) <= Len(DeploySteps)
    /\ Len(exits) = Len(steps_run)
    /\ \A i \in 1..Len(steps_run) :
         /\ steps_run[i] = DeploySteps[i]
         /\ i < Len(steps_run) => exits[i] = "zero"
    /\ (\E i \in 1..Len(exits) : exits[i] # "zero")
           => d_ret.success = "False" /\ w_pc \in {"respond", "idle"}
    /\ d_ret.success = "True"
           => steps_run = DeploySteps /\ \A i \in 1..Len(exits) : exits[i] = "zero"

\* C30 witness: the third command failed after two that worked; deploy()
\* returned False and the request was answered.
C30_FailedAtThirdStep ==
    /\ Len(steps_run) = 3
    /\ exits[3] = "nonzero"
    /\ d_ret.success = "False"
    /\ response = 500

\* C24: every positive file size gets the one category of the table: small
\* below 100 MB, medium from 100 MB to below 500 MB, large from 500 MB to
\* below 1 GB (1024 MB), xlarge from 1 GB upward.
C24_CategoryFollowsTable ==
    f_category # "none"
        => f_category = (IF f_size < 100 * MB THEN "small"
                         ELSE IF f_size < 500 * MB THEN "medium"
                         ELSE IF f_size < 1024 * MB THEN "large"
                         ELSE "xlarge")

\* the category differs from the table of C24 only for the sizes from
\* 1000 MB to below 1024 MB
L24_DiffersBelowOneGB ==
    (f_category # "none" /\ ~(f_size >= 1000 * MB /\ f_size < 1024 * MB))
        => C24_CategoryFollowsTable

\* C21: for the empty result list _calculate_metrics returns, without an
\* error, metrics whose counts, total bytes, success rate, throughput,
\* duration statistics and API response-time statistics are all zero.
C21_EmptyResultsAllZero ==
    (m_results = <<>> /\ m_metrics # NoMetrics)
        => m_metrics = [NoMetrics EXCEPT !.total_files = 0]

\* C21 witness: the metrics of the empty list were computed.
C21_EmptyListComputed ==
    m_results = <<>> /\ m_metrics.total_files = 0

\* C22: for every non-empty result list, of any size, the metrics satisfy
\* min_duration <= p50_duration <= p95_duration <= p99_duration <= max_duration.
C22_PercentilesOrdered ==
    (m_results # <<>> /\ m_metrics # NoMetrics)
        => /\ FLeq(m_metrics.min_duration, m_metrics.p50_duration)
           /\ FLeq(m_metrics.p50_duration, m_metrics.p95_duration)
           /\ FLeq(m_metrics.p95_duration, m_metrics.p99_duration)
           /\ FLeq(m_metrics.p99_duration, m_metrics.max_duration)

\* with fewer than 20 durations the percentiles of C22 are in order
L22_OrderedBelowTwenty ==
    (m_results # <<>> /\ m_metrics # NoMetrics
        /\ Count(SelectSeq(m_results, LAMBDA r : r.duration # Zero)) < 20)
        => C22_PercentilesOrdered

\* C23: two calls of a report generator with the same list of metrics write
\* the same document, except for its timestamp field.
C23_ReportsEqualButTimestamp ==
    Len(reports) = 2
        => [reports[1] EXCEPT !.timestamp = 0] = [reports[2] EXCEPT !.timestamp = 0]

\* the two documents of generate_report are equal but for the timestamp, and
\* so are the two of generate_stress_report when no sample was taken between
\* the calls
L23_EqualWithoutNewSample ==
    (Len(reports) = 2
        /\ (generator = "generate_report"
               \/ reports[1].system_metrics = Last(system_metrics, LastSamples)))
        => C23_ReportsEqualButTimestamp

====
